---- MODULE Spec2Model ----
(***************************************************************************)
(* Model of sprinter.js: a wrapper around a GitHub client that runs one    *)
(* operation against several repositories at once through async.parallel.  *)
(*                                                                         *)
(* JavaScript is single threaded: a call of an operation runs to its end   *)
(* (dispatching every remote call), and afterwards each response of the    *)
(* remote client runs its whole callback chain.  One action models one     *)
(* such turn.  The order in which responses arrive is nondeterministic.    *)
(*                                                                         *)
(* Strings that the code splits or concatenates (slugs, organizations,     *)
(* repositories) are sequences of one-character strings; objects are       *)
(* functions from field names to values.                                   *)
(***************************************************************************)
EXTENDS Integers, Sequences, FiniteSets, TLC

\* ------------------------------------------------------------- bounds ----
MaxRepos == 2     \* configured repos: 0..MaxRepos
MaxItems == 2     \* issues / milestones one remote list call returns
MaxSlugs == 2     \* slugs handed to the constructor when it is checked alone

\* ---------------------------------------------------------- universes ----
SlugPool == << <<"a", "/", "x">>, <<"b", "/", "y">>, <<"c", "/", "z">>, <<"a", "/", "y">> >>
\* two instants are enough to order and to tie any number of issues
Times == {1, 2}
Causes == {"ETIMEDOUT"}
FetchTitles == {"Sprint 1", "sprint 1"}
CloseTitles == {"Sprint 1", "NoSuchTitle", "constructor"}
EmptyObj == [k \in {} |-> ""]
FilterArgs == {EmptyObj, [k \in {"state"} |-> "closed"], [k \in {"labels"} |-> "bug"],
               [k \in {"user"} |-> <<"e">>]}
PlainTemplate == [k \in {"title", "due_on"} |-> IF k = "title" THEN "Sprint 1" ELSE "D"]
Templates == {PlainTemplate,
              [k \in {"title", "due_on", "user", "repo"} |->
                  CASE k = "title" -> "Sprint 1"
                    [] k = "due_on" -> "D"
                    [] k = "user" -> <<"e">>
                    [] OTHER -> <<"r">>]}
\* slugs for the constructor alone: well formed, and every way of not being so
CtorSlugs == {<<"a", "/", "x">>, <<"b", "/", "y">>, <<"o", "r", "g">>, <<"o", "/">>,
              <<"/", "r">>, <<"a", "/", "b", "/", "c">>, <<>>}

\* ------------------------------------------------------------ helpers ----
UndefinedStr == <<"undefined">>

RECURSIVE split(_, _)
split(s, sep) ==
    IF \A i \in 1..Len(s) : s[i] # sep
    THEN <<s>>
    ELSE LET i == CHOOSE i \in 1..Len(s) :
                      s[i] = sep /\ \A j \in 1..(i - 1) : s[j] # sep
         IN  <<SubSeq(s, 1, i - 1)>> \o split(SubSeq(s, i + 1, Len(s)), sep)

convertSlugsToObjects(slugs) == [i \in 1..Len(slugs) |-> split(slugs[i], "/")]

\* arr[k] of JavaScript (0-based); a missing element reads as undefined
At(arr, k) == IF k + 1 \in DOMAIN arr THEN arr[k + 1] ELSE UndefinedStr

\* org + '/' + repo
slugOf(org, repo) == org \o <<"/">> \o repo

\* _.extend(dst, src): src's fields copied over dst's; the result IS dst
extend(dst, src) ==
    [k \in (DOMAIN dst) \cup (DOMAIN src) |-> IF k \in DOMAIN src THEN src[k] ELSE dst[k]]

Obj2(k1, v1, k2, v2) == [k \in {k1, k2} |-> IF k = k1 THEN v1 ELSE v2]

\* error objects: cause, the remote call that produced it, the repo attribute
NoErr == [cause |-> "none", call |-> 0, repo |-> <<>>]
IsErr(e) == e.cause # "none"
RemoteErr(c, id) == [cause |-> c, call |-> id, repo |-> <<>>]

\* an array slot: undefined or a value
Undef == [def |-> FALSE, val |-> <<>>]
Def(v) == [def |-> TRUE, val |-> v]

RECURSIVE concat(_)
concat(ss) == IF ss = <<>> THEN <<>> ELSE concat(SubSeq(ss, 1, Len(ss) - 1)) \o ss[Len(ss)]

\* _.flatten(data): the per-repo arrays spliced in array order; an undefined
\* slot stays one undefined element
flatten(data) ==
    concat([i \in 1..Len(data) |-> IF data[i].def THEN data[i].val ELSE <<Undef>>])

reverse(s) == [i \in 1..Len(s) |-> s[Len(s) + 1 - i]]

\* new Date(issue.updated_at): instants are integers, later is larger
updatedAt(issue) == issue.updated_at

\* _.sortBy(list, iterator) with getIssues' iterator: ascending by date; list
\* order is kept between equal dates (the comparator falls back on the index)
RECURSIVE sortBy(_)
sortBy(list) ==
    IF list = <<>> THEN <<>>
    ELSE LET x    == list[Len(list)]
             rest == sortBy(SubSeq(list, 1, Len(list) - 1))
             k    == Cardinality({i \in 1..Len(rest) : updatedAt(rest[i]) <= updatedAt(x)})
         IN  SubSeq(rest, 1, k) \o <<x>> \o SubSeq(rest, k + 1, Len(rest))

sortIssues(issues) == reverse(sortBy(issues))

\* grouping that ignores the case of the first letter
lower(t) == IF t = "Sprint 1" THEN "sprint 1" ELSE t
groupByLower(list) ==
    [t \in {lower(list[i].title) : i \in 1..Len(list)} |->
        SelectSeq(list, LAMBDA m : lower(m.title) = t)]

\* _.groupBy(list, 'title'): own keys are the titles that occur, each group in
\* list order
groupBy(list) ==
    [t \in {list[i].title : i \in 1..Len(list)} |->
        SelectSeq(list, LAMBDA m : m.title = t)]

\* --------------------------------------------------------------- state ----
VARIABLES
    repoSlugs,  \* the slugs the caller configured
    repos,      \* this.repos: one split slug per configured slug
    request,    \* the operation the caller invoked and its arguments as passed
    callerArg,  \* the caller's own filters or template object as it is now
    filters,    \* getIssues' filters object, shared by all its branches
    calls,      \* remote calls issued so far, in order of dispatch
    par,        \* the running async.parallel: results, completed, callback
    fanLog,     \* invocations of async.parallel's main callback (the results
                \* are recorded for a success only)
    delivered,  \* invocations of the caller's callback
    thrown      \* exceptions thrown out of a callback

vars == <<repoSlugs, repos, request, callerArg, filters, calls, par, fanLog,
          delivered, thrown>>

NoRequest == [name |-> "none", cbOnly |-> FALSE, userFilters |-> EmptyObj,
              title |-> "", template |-> EmptyObj]

NoPar == [n |-> 0, base |-> 0, stage |-> "none", results |-> <<>>,
          completed |-> 0, live |-> FALSE]

Configs == {SubSeq(SlugPool, 1, n) : n \in 0..MaxRepos}
CtorConfigs == UNION {[1..n -> CtorSlugs] : n \in 0..MaxSlugs}

\* before new Sprinter(username, password, slugs)
New(slugs) ==
    /\ repoSlugs = slugs
    /\ repos = <<>>
    /\ request = [NoRequest EXCEPT !.name = "new"]
    /\ callerArg = EmptyObj
    /\ filters = EmptyObj
    /\ calls = <<>>
    /\ par = NoPar
    /\ fanLog = <<>>
    /\ delivered = <<>>
    /\ thrown = <<>>

Init == \E slugs \in Configs : New(slugs)
InitCtor == \E slugs \in CtorConfigs : New(slugs)

\* Sprinter(username, password, repoSlugs): the slugs are split, nothing is
\* validated and nothing is thrown
Sprinter ==
    /\ request.name = "new"
    /\ repos' = convertSlugsToObjects(repoSlugs)
    /\ request' = NoRequest
    /\ UNCHANGED <<repoSlugs, callerArg, filters, calls, par, fanLog, delivered, thrown>>

org(i) == At(repos[i], 0)
repo(i) == At(repos[i], 1)

\* --------------------------------------------------- async.parallel ----
\* results.push(v): the results in order of completion
setAtPush(results, b, v) == Append(results, v)

\* results[index] = v on an array that starts empty: it grows to the highest
\* index written, the holes below read as undefined
setAt(results, b, v) ==
    [i \in 1..(IF b > Len(results) THEN b ELSE Len(results)) |->
        IF i = b THEN v ELSE IF i <= Len(results) THEN results[i] ELSE Undef]

\* async.parallel(tasks, callback) once every task has been started
parallel(n, base, stage) ==
    [n |-> n, base |-> base, stage |-> stage, results |-> <<>>,
     completed |-> 0, live |-> TRUE]

\* a task's callback(err, v): the result is stored, a success is counted
taskDone(p, b, err, v) ==
    IF IsErr(err)
    THEN [p EXCEPT !.results = setAt(p.results, b, v)]
    ELSE [p EXCEPT !.results = setAt(p.results, b, v), !.completed = p.completed + 1]

\* a fan-in that reports only once every task has succeeded
firesOnSuccessOnly(p, err) == p.live /\ ~IsErr(err) /\ p.completed + 1 >= p.n

\* whether that callback makes async.parallel call its main callback: on an
\* error unless an earlier error replaced it by a no-op, else when all are done
fires(p, err) == p.live /\ (IsErr(err) \/ p.completed + 1 >= p.n)

\* ------------------------------------------- effects of a callback chain ----
Nothing == [del |-> <<>>, thr |-> <<>>, upd |-> <<>>]
Throw(x) == [del |-> <<>>, thr |-> <<x>>, upd |-> <<>>]
Dispatch(cs) == [del |-> <<>>, thr |-> <<>>, upd |-> cs]

\* the caller's callback: mainCallback(err) or mainCallback(err, data)
callerCallback(err, hasData, data) ==
    [del |-> <<[err |-> err, hasData |-> hasData, data |-> data, alias |-> FALSE]>>,
     thr |-> <<>>, upd |-> <<>>]

\* the caller's callback handed to async.parallel itself: it receives
\* async.parallel's own results array, not a copy (data is its content then)
parallelCallback(err, results) ==
    [del |-> <<[err |-> err, hasData |-> TRUE, data |-> results, alias |-> TRUE]>>,
     thr |-> <<>>, upd |-> <<>>]

Call(kind, b, arg, shared) ==
    [kind |-> kind, branch |-> b, arg |-> arg, shared |-> shared,
     status |-> "inflight", count |-> 0]

\* ------------------------------------------------------------ getIssues ----
\* the filters object after branches 1..i ran _.extend(filters, {user, repo})
RECURSIVE filtersAfter(_, _)
filtersAfter(f0, i) ==
    IF i = 0 THEN f0
    ELSE extend(filtersAfter(f0, i - 1), Obj2("user", org(i), "repo", repo(i)))

\* a callback that passes the flattened data along with the error
getIssuesDoneWithData(err, issues) ==
    IF IsErr(err)
    THEN callerCallback(err, TRUE, issues)
    ELSE callerCallback(err, TRUE, sortIssues(issues))

\* the function(err, issues) handed to _eachRepoFlattened by getIssues
getIssuesDone(err, issues) ==
    IF IsErr(err)
    THEN callerCallback(err, FALSE, <<>>)
    ELSE callerCallback(err, TRUE, sortIssues(issues))

\* tagging with the last repo of the loop instead of the branch's own org, repo
tagAllLastRepo(items, b) ==
    [k \in 1..Len(items) |->
        [f \in (DOMAIN items[k]) \cup {"repo"} |->
            IF f = "repo" THEN slugOf(org(Len(repos)), repo(Len(repos))) ELSE items[k][f]]]

\* issue.repo = org + '/' + repo on every issue of branch b
tagAll(items, b) ==
    [k \in 1..Len(items) |->
        [f \in (DOMAIN items[k]) \cup {"repo"} |->
            IF f = "repo" THEN slugOf(org(b), repo(b)) ELSE items[k][f]]]

\* -------------------------------------------------------- closeMilestones ----
\* names every object inherits: Object.prototype.constructor is the function
\* Object, whose length is 1
ObjectPrototype == {"constructor"}

\* milestones[title]
lookup(milestones, title) ==
    IF title \in DOMAIN milestones THEN [kind |-> "array", val |-> milestones[title]]
    ELSE IF title \in ObjectPrototype THEN [kind |-> "function", val |-> <<>>]
    ELSE [kind |-> "undefined", val |-> <<>>]

\* updaters that take the repository for the organization and the reverse
updatersSwapped(matches) ==
    [j \in 1..Len(matches) |->
        LET match == matches[j]
            splitSlug == split(match.repo, "/")
        IN  Call("updateMilestone", j,
                 [f \in {"user", "repo", "number", "title", "state"} |->
                    CASE f = "user" -> At(splitSlug, 1)
                      [] f = "repo" -> At(splitSlug, 0)
                      [] f = "number" -> match.number
                      [] f = "title" -> match.title
                      [] OTHER -> "closed"],
                 FALSE)]

\* the updateMilestone calls of the updaters, one per match
updaters(matches) ==
    [j \in 1..Len(matches) |->
        LET match == matches[j]
            splitSlug == split(match.repo, "/")
        IN  Call("updateMilestone", j,
                 [f \in {"user", "repo", "number", "title", "state"} |->
                    CASE f = "user" -> At(splitSlug, 0)
                      [] f = "repo" -> At(splitSlug, 1)
                      [] f = "number" -> match.number
                      [] f = "title" -> match.title
                      [] OTHER -> "closed"],
                 FALSE)]

\* the function(err, milestones) closeMilestones hands to getMilestones
closeMilestonesDone(title, err, hasData, milestones) ==
    IF ~hasData
    THEN Throw("TypeError")            \* milestones[title] of undefined
    ELSE LET matches == lookup(milestones, title)
         IN  IF IsErr(err) THEN callerCallback(err, FALSE, <<>>)
             ELSE IF matches.kind = "undefined" THEN callerCallback(NoErr, TRUE, <<>>)
             ELSE IF matches.kind = "function" THEN Throw("TypeError")  \* match.repo of undefined
             ELSE Dispatch(updaters(matches.val))

\* ------------------------------------------------------- createMilestones ----
\* a payload that leaves the template out
createPayloadBare(b, milestone) == Obj2("user", org(b), "repo", repo(b))

\* _.extend({user: org, repo: repo}, milestone)
createPayload(b, milestone) == extend(Obj2("user", org(b), "repo", repo(b)), milestone)

\* ---------------------------------------------------------- getMilestones ----
\* getMilestones' mainCallback: the caller's, or closeMilestones' function
milestonesCallback(req, err, hasData, data) ==
    IF req.name = "closeMilestones"
    THEN closeMilestonesDone(req.title, err, hasData, data)
    ELSE callerCallback(err, hasData, data)

\* a fan-in that takes a failed repo for one without milestones and goes on
getMilestonesDoneSkippingFailures(req, err, milestones) ==
    milestonesCallback(req, NoErr, TRUE,
                       groupBy(SelectSeq(milestones, LAMBDA m : "title" \in DOMAIN m)))

\* the function(err, milestones) handed to _eachRepoFlattened by getMilestones
getMilestonesDone(req, err, milestones) ==
    IF IsErr(err)
    THEN milestonesCallback(req, err, FALSE, <<>>)
    ELSE milestonesCallback(req, err, TRUE, groupBy(milestones))

\* ------------------------------------------------------------- fan-in ----
\* _eachRepoFlattened's function(err, data)
eachRepoFlattenedDone(req, stage, err, data) ==
    IF stage = "issues"
    THEN getIssuesDone(err, flatten(data))
    ELSE getMilestonesDone(req, err, flatten(data))

\* what async.parallel's main callback does, by the operation that set it:
\* createMilestones and closeMilestones' updaters pass the caller's callback
mainCb(req, stage, err, results) ==
    IF stage \in {"issues", "milestones"}
    THEN eachRepoFlattenedDone(req, stage, err, results)
    ELSE parallelCallback(err, results)

\* ------------------------------------------------------------ operations ----
\* _eachRepo(fn, mainCallback): every branch's remote call is issued in repo
\* order within the caller's turn; with no repos async.parallel calls back
\* at once
eachRepo(req, stage, newCalls, newFilters, argAfter) ==
    LET n   == Len(repos)
        eff == IF n = 0 THEN mainCb(req, stage, NoErr, <<>>) ELSE Nothing
    IN  /\ request = NoRequest
        /\ request' = req
        /\ callerArg' = argAfter
        /\ filters' = newFilters
        /\ calls' = newCalls \o eff.upd
        /\ par' = parallel(n, 0, stage)
        /\ fanLog' = IF n = 0
                     THEN <<[err |-> NoErr, stage |-> stage, results |-> <<>>]>>
                     ELSE <<>>
        /\ delivered' = eff.del
        /\ thrown' = eff.thr
        /\ UNCHANGED <<repoSlugs, repos>>

\* a merge in which the default wins over the caller's value
mergeDefaultsFirst(userFilters) ==
    [filters |-> extend(userFilters, [k \in {"state"} |-> "open"]),
     userFilters |-> userFilters]

\* a merge into the caller's own object
mergeDefaultsInPlace(userFilters) ==
    [filters |-> extend([k \in {"state"} |-> "open"], userFilters),
     userFilters |-> extend([k \in {"state"} |-> "open"], userFilters)]

\* filters = _.extend({state: 'open'}, userFilters): a new object takes the
\* default and then the caller's fields; the caller's object is only read
mergeDefaults(userFilters) ==
    [filters |-> extend([k \in {"state"} |-> "open"], userFilters),
     userFilters |-> userFilters]

\* getIssues(userFilters, mainCallback) and getIssues(mainCallback)
getIssues(cbOnly, userFilters) ==
    LET uf == IF cbOnly THEN EmptyObj ELSE userFilters
        f0 == mergeDefaults(uf).filters
    IN  eachRepo([NoRequest EXCEPT !.name = "getIssues", !.cbOnly = cbOnly,
                                   !.userFilters = uf],
                 "issues",
                 [b \in 1..Len(repos) |-> Call("repoIssues", b, filtersAfter(f0, b), TRUE)],
                 filtersAfter(f0, Len(repos)),
                 mergeDefaults(uf).userFilters)

getMilestones ==
    eachRepo([NoRequest EXCEPT !.name = "getMilestones"], "milestones",
             [b \in 1..Len(repos) |->
                Call("getAllMilestones", b, Obj2("user", org(b), "repo", repo(b)), FALSE)],
             filters, callerArg)

closeMilestones(title) ==
    eachRepo([NoRequest EXCEPT !.name = "closeMilestones", !.title = title], "milestones",
             [b \in 1..Len(repos) |->
                Call("getAllMilestones", b, Obj2("user", org(b), "repo", repo(b)), FALSE)],
             filters, callerArg)

createMilestones(milestone) ==
    eachRepo([NoRequest EXCEPT !.name = "createMilestones", !.template = milestone], "create",
             [b \in 1..Len(repos) |->
                Call("createMilestone", b, createPayload(b, milestone), FALSE)],
             filters, milestone)

\* ------------------------------------------------------ remote responses ----
IssueBodies == UNION {[1..n -> Times] : n \in 0..MaxItems}
MilestoneBodies == UNION {[1..n -> FetchTitles] : n \in 0..MaxItems}

\* what the remote side returns for call c: the items of the repository the
\* payload named when the call was made
rawIssues(c, times) ==
    [k \in 1..Len(times) |->
        [call |-> c, pos |-> k, updated_at |-> times[k],
         origin |-> slugOf(calls[c].arg.user, calls[c].arg.repo)]]

rawMilestones(c, titles) ==
    [k \in 1..Len(titles) |->
        [call |-> c, pos |-> k, number |-> k, title |-> titles[k],
         origin |-> slugOf(calls[c].arg.user, calls[c].arg.repo)]]

rawMilestone(c) ==
    [call |-> c, title |-> calls[c].arg.title,
     origin |-> slugOf(calls[c].arg.user, calls[c].arg.repo)]

\* the response handler of call c, up to its localCallback(err, v)
handler(c, err, body) ==
    LET b == calls[c].branch
        k == calls[c].kind
    IN  IF k = "updateMilestone"
        THEN IF IsErr(err)
             THEN [threw |-> TRUE, err |-> err, v |-> Undef]   \* org is not defined
             ELSE [threw |-> FALSE, err |-> err, v |-> Def(body)]
        ELSE IF IsErr(err)
             THEN [threw |-> FALSE, err |-> [err EXCEPT !.repo = slugOf(org(b), repo(b))],
                   v |-> Undef]
             ELSE IF k = "createMilestone"
                  THEN [threw |-> FALSE, err |-> err, v |-> Def(body)]
                  ELSE [threw |-> FALSE, err |-> err, v |-> Def(tagAll(body, b))]

\* one response of the remote client and everything its callback runs
respond(c, err, body, count) ==
    LET h      == handler(c, err, body)
        calls1 == [calls EXCEPT ![c].status = IF IsErr(err) THEN "failed" ELSE "ok",
                                ![c].count = count]
    IN  /\ calls[c].status = "inflight"
        /\ IF h.threw
           THEN /\ thrown' = Append(thrown, "ReferenceError")
                /\ calls' = calls1
                /\ UNCHANGED <<par, fanLog, delivered>>
           ELSE LET b    == calls[c].branch
                    p1   == taskDone(par, b, h.err, h.v)
                    fire == fires(par, h.err)
                    eff  == IF fire THEN mainCb(request, par.stage, h.err, p1.results)
                            ELSE Nothing
                    p2   == IF fire /\ IsErr(h.err) /\ eff.thr = <<>>
                            THEN [p1 EXCEPT !.live = FALSE] ELSE p1
                IN  /\ calls' = calls1 \o eff.upd
                    /\ par' = IF eff.upd # <<>>
                              THEN parallel(Len(eff.upd), Len(calls1), "update")
                              ELSE p2
                    /\ fanLog' = IF fire
                                 THEN Append(fanLog,
                                        [err |-> h.err, stage |-> par.stage,
                                         results |-> IF IsErr(h.err) THEN <<>>
                                                     ELSE p1.results])
                                 ELSE fanLog
                    /\ delivered' = delivered \o eff.del
                    /\ thrown' = thrown \o eff.thr
        /\ UNCHANGED <<repoSlugs, repos, request, callerArg, filters>>

InFlight(kind) == {c \in DOMAIN calls : calls[c].kind = kind /\ calls[c].status = "inflight"}

RepoIssuesOk ==
    \E c \in InFlight("repoIssues"), times \in IssueBodies :
        respond(c, NoErr, rawIssues(c, times), Len(times))

GetAllMilestonesOk ==
    \E c \in InFlight("getAllMilestones"), titles \in MilestoneBodies :
        respond(c, NoErr, rawMilestones(c, titles), Len(titles))

UpdateMilestoneOk ==
    \E c \in InFlight("updateMilestone") :
        respond(c, NoErr,
                [rawMilestone(c) EXCEPT !.call = c] @@
                    [f \in {"number", "state"} |->
                        IF f = "number" THEN calls[c].arg.number ELSE "closed"],
                1)

CreateMilestoneOk ==
    \E c \in InFlight("createMilestone") : respond(c, NoErr, rawMilestone(c), 1)

RemoteFails ==
    \E c \in DOMAIN calls, cause \in Causes :
        respond(c, RemoteErr(cause, c), <<>>, 0)

GetIssues == \E cbOnly \in BOOLEAN, uf \in FilterArgs :
                (cbOnly => uf = EmptyObj) /\ getIssues(cbOnly, uf)
GetMilestones == getMilestones
CloseMilestones == \E title \in CloseTitles : closeMilestones(title)
CreateMilestones == \E milestone \in Templates : createMilestones(milestone)

Next ==
    \/ Sprinter
    \/ GetIssues
    \/ GetMilestones
    \/ CloseMilestones
    \/ CreateMilestones
    \/ RepoIssuesOk
    \/ GetAllMilestonesOk
    \/ UpdateMilestoneOk
    \/ CreateMilestoneOk
    \/ RemoteFails

Spec == Init /\ [][Next]_vars

\* the constructor alone, on every list of slugs
NextCtor == Sprinter
SpecCtor == InitCtor /\ [][NextCtor]_vars

\* ================================================================ claims ====
\* the payload object a remote call holds: getIssues hands every branch the
\* one filters object, the other operations build an object per call
payload(c) == IF calls[c].shared THEN filters ELSE calls[c].arg

ownSlug(c) == slugOf(org(calls[c].branch), repo(calls[c].branch))

Failed == {c \in DOMAIN calls : calls[c].status = "failed"}
Pending == {c \in DOMAIN calls : calls[c].status = "inflight"}

RECURSIVE total(_)
total(k) == IF k = 0 THEN 0 ELSE calls[k].count + total(k - 1)

\* x was encountered before y: canonical repo order, then order in the result
before(x, y) ==
    \/ calls[x.call].branch < calls[y.call].branch
    \/ calls[x.call].branch = calls[y.call].branch /\ x.pos < y.pos

Succeeded(name) ==
    /\ request.name = name
    /\ Len(delivered) = 1
    /\ ~IsErr(delivered[1].err)
    /\ delivered[1].hasData

\* C1: while a repo's listIssues call of getIssues is in flight, the filter
\* payload it was handed names that repo's own organization and repository;
\* no other branch overwrites it.
C1_PayloadStaysOwn ==
    \A c \in Pending :
        calls[c].kind = "repoIssues" =>
            /\ payload(c).user = org(calls[c].branch)
            /\ payload(c).repo = repo(calls[c].branch)

\* C2: when getIssues succeeds, the number of issues returned is the sum of the
\* per-repo result counts, and every issue's repo tag is the slug of the repo
\* whose listIssues call returned it.
C2_CountAndAttribution ==
    Succeeded("getIssues") =>
        LET data == delivered[1].data
        IN  /\ Len(data) = total(Len(calls))
            /\ \A i \in 1..Len(data) :
                  /\ data[i].repo = ownSlug(data[i].call)
                  /\ data[i].repo = data[i].origin

C2_Witness ==
    /\ Succeeded("getIssues")
    /\ Len(repos) >= 2
    /\ \A c \in DOMAIN calls : calls[c].count >= 1
    /\ Len(delivered[1].data) >= 3

\* C3: the sequence getIssues returns is non-increasing in updated_at, and two
\* issues with equal updated_at appear in their original encounter order.
C3_StableDescending ==
    Succeeded("getIssues") =>
        LET data == delivered[1].data
        IN  \A i, j \in 1..Len(data) :
                i < j =>
                    /\ data[i].updated_at >= data[j].updated_at
                    /\ data[i].updated_at = data[j].updated_at => before(data[i], data[j])

\* C4: if exactly one listIssues call of getIssues has failed, the caller's
\* callback has received one error, attributed to the failing repo, and no
\* issue data.
C4_SingleFailureAttributed ==
    (request.name = "getIssues" /\ Cardinality(Failed) = 1) =>
        LET c == CHOOSE c \in Failed : TRUE
        IN  /\ Len(delivered) = 1
            /\ IsErr(delivered[1].err)
            /\ delivered[1].err.call = c
            /\ delivered[1].err.repo = ownSlug(c)
            /\ ~delivered[1].hasData
            /\ delivered[1].data = <<>>

C4_Witness ==
    /\ request.name = "getIssues"
    /\ Len(repos) >= 2
    /\ Cardinality(Failed) = 1
    /\ Pending = {}
    /\ calls[1].status = "ok"
    /\ calls[1].count >= 1
    /\ Len(delivered) = 1

\* C5: when every branch of an _eachRepo fan-out succeeds, the results handed
\* to the main callback have one entry per configured repo and entry i is the
\* result of the i-th configured repo.
C5_ResultsInRepoOrder ==
    \A k \in 1..Len(fanLog) :
        (~IsErr(fanLog[k].err) /\ fanLog[k].stage # "update") =>
            LET results == fanLog[k].results
            IN  /\ Len(results) = Len(repos)
                /\ \A i \in 1..Len(results) :
                      /\ results[i].def
                      /\ IF fanLog[k].stage = "create"
                         THEN /\ calls[results[i].val.call].branch = i
                              /\ results[i].val.call = i
                         ELSE /\ Len(results[i].val) = calls[i].count
                              /\ \A m \in 1..Len(results[i].val) :
                                    /\ calls[results[i].val[m].call].branch = i
                                    /\ results[i].val[m].origin = slugOf(org(i), repo(i))

C5_Witness ==
    /\ Len(repos) >= 2
    /\ Len(fanLog) >= 1
    /\ ~IsErr(fanLog[1].err)
    /\ fanLog[1].stage \in {"create", "issues"}
    /\ \A c \in DOMAIN calls : calls[c].count >= 1

\* C6: in an _eachRepo fan-out, the step in which the first branch reports an
\* error is the step in which the main callback is invoked, with that branch's
\* error, whatever is still in flight.
C6_FailFastFirstError ==
    [][\A c \in DOMAIN calls :
          ( /\ calls[c].status = "inflight"
            /\ calls'[c].status = "failed"
            /\ calls[c].kind # "updateMilestone"
            /\ Failed = {} )
          => /\ Len(fanLog') = Len(fanLog) + 1
             /\ IsErr(fanLog'[Len(fanLog')].err)
             /\ fanLog'[Len(fanLog')].err.call = c
             /\ fanLog'[Len(fanLog')].err.cause \in Causes]_vars

C6_Witness ==
    /\ Len(fanLog) = 1
    /\ IsErr(fanLog[1].err)
    /\ fanLog[1].stage # "update"
    /\ calls[fanLog[1].err.call].branch > 1
    /\ calls[1].status = "inflight"

\* C7: whenever the caller's callback of getIssues, getMilestones,
\* closeMilestones or createMilestones is invoked with an error, it is invoked
\* with no result payload.
C7_NoPayloadWithError ==
    \A k \in 1..Len(delivered) :
        IsErr(delivered[k].err) => ~delivered[k].hasData

\* C8: when getMilestones succeeds, two milestones are in the same group
\* exactly if their titles are equal, every fetched milestone is in exactly
\* one group and carries the tag of its origin, and each group is in canonical
\* repo order, then per-repo result order.
C8_GroupedByExactTitle ==
    Succeeded("getMilestones") =>
        LET groups == delivered[1].data
            places == {<<t, i>> \in (DOMAIN groups) \X (1..(MaxRepos * MaxItems)) :
                          i <= Len(groups[t])}
        IN  /\ \A p \in places :
                  LET m == groups[p[1]][p[2]]
                  IN  /\ m.title = p[1]
                      /\ m.repo = ownSlug(m.call)
                      /\ m.repo = m.origin
            /\ \A t \in DOMAIN groups : Len(groups[t]) >= 1
            /\ \A c \in DOMAIN calls, k \in 1..MaxItems :
                  k <= calls[c].count =>
                      Cardinality({p \in places : /\ groups[p[1]][p[2]].call = c
                                                   /\ groups[p[1]][p[2]].pos = k}) = 1
            /\ \A t \in DOMAIN groups : \A i, j \in 1..Len(groups[t]) :
                  i < j => before(groups[t][i], groups[t][j])

C8_Witness ==
    /\ Succeeded("getMilestones")
    /\ DOMAIN delivered[1].data = {"Sprint 1", "sprint 1"}
    /\ Len(delivered[1].data["Sprint 1"]) >= 2
    /\ delivered[1].data["Sprint 1"][1].call # delivered[1].data["Sprint 1"][2].call

\* C9: closeMilestones(title), when all listMilestones calls succeeded and no
\* fetched milestone has that title, completes with an empty list and no
\* error, and no updateMilestone call is issued.
C9_MissIsNoop ==
    ( /\ request.name = "closeMilestones"
      /\ par.stage = "milestones"
      /\ par.completed = par.n
      /\ \A i \in 1..Len(par.results) : \A k \in 1..Len(par.results[i].val) :
            par.results[i].val[k].title # request.title )
    => /\ Len(delivered) = 1
       /\ ~IsErr(delivered[1].err)
       /\ delivered[1].hasData
       /\ delivered[1].data = <<>>
       /\ thrown = <<>>
       /\ \A c \in DOMAIN calls : calls[c].kind # "updateMilestone"

\* C10: if a listMilestones call of closeMilestones fails, closeMilestones
\* invokes the caller's callback with that same error and does nothing else.
C10_AggregationErrorPropagated ==
    ( /\ request.name = "closeMilestones"
      /\ Len(fanLog) >= 1
      /\ IsErr(fanLog[1].err) )
    => /\ Len(delivered) = 1
       /\ delivered[1].err = fanLog[1].err
       /\ ~delivered[1].hasData
       /\ thrown = <<>>
       /\ \A c \in DOMAIN calls : calls[c].kind # "updateMilestone"

\* the milestones closeMilestones fetched (once its aggregation succeeded) and
\* those among them that carry the requested title, in flattened order
Fetched == flatten(fanLog[1].results)
Matching == SelectSeq(Fetched, LAMBDA m : m.title = request.title)
Updates == {c \in DOMAIN calls : calls[c].kind = "updateMilestone"}

\* C11: if an updateMilestone call of closeMilestones fails, the caller's
\* callback is invoked with one error that carries the cause and the slug of
\* the repo whose update failed.
C11_UpdateFailureReported ==
    \A c \in Updates :
        calls[c].status = "failed" =>
            /\ Len(delivered) = 1
            /\ IsErr(delivered[1].err)
            /\ delivered[1].err.cause \in Causes
            /\ delivered[1].err.repo = slugOf(calls[c].arg.user, calls[c].arg.repo)

AggregationSucceeded ==
    /\ request.name = "closeMilestones"
    /\ Len(fanLog) >= 1
    /\ fanLog[1].stage = "milestones"
    /\ ~IsErr(fanLog[1].err)

\* C12: closeMilestones(title) with the title present issues one
\* updateMilestone call per fetched milestone with that title and no other;
\* each goes to the organization/repository of the milestone's tag with its
\* number, its title and state "closed"; when all succeed the callback
\* receives the updated milestones in the order of the matching list.
C12_OneUpdatePerMatch ==
    (AggregationSucceeded /\ Matching # <<>>) =>
        /\ Cardinality(Updates) = Len(Matching)
        /\ \A j \in 1..Len(Matching) :
              LET c == Len(repos) + j
                  m == Matching[j]
              IN  /\ c \in Updates
                  /\ calls[c].branch = j
                  /\ DOMAIN calls[c].arg = {"user", "repo", "number", "title", "state"}
                  /\ slugOf(calls[c].arg.user, calls[c].arg.repo) = m.repo
                  /\ m.repo = m.origin
                  /\ calls[c].arg.number = m.number
                  /\ calls[c].arg.title = request.title
                  /\ m.title = request.title
                  /\ calls[c].arg.state = "closed"
        /\ (\A c \in Updates : calls[c].status = "ok") =>
              /\ Len(delivered) = 1
              /\ ~IsErr(delivered[1].err)
              /\ delivered[1].hasData
              /\ Len(delivered[1].data) = Len(Matching)
              /\ \A j \in 1..Len(Matching) :
                    /\ delivered[1].data[j].def
                    /\ delivered[1].data[j].val.call = Len(repos) + j
                    /\ delivered[1].data[j].val.number = Matching[j].number
                    /\ delivered[1].data[j].val.origin = Matching[j].repo
                    /\ delivered[1].data[j].val.state = "closed"

C12_Witness ==
    /\ AggregationSucceeded
    /\ Len(Matching) >= 2
    /\ Matching[1].call # Matching[2].call
    /\ Len(Fetched) > Len(Matching)
    /\ \A c \in Updates : calls[c].status = "ok"
    /\ Len(delivered) = 1

\* C13: createMilestones({title, due_on}) issues one createMilestone call per
\* configured repo, each with a payload of its own holding that repo's
\* organization and repository and the template's title and due_on; when all
\* succeed the callback receives one created milestone per repo in repo order.
C13_OneCreatePerRepo ==
    (request.name = "createMilestones" /\ DOMAIN request.template = {"title", "due_on"}) =>
        /\ Len(calls) = Len(repos)
        /\ \A b \in 1..Len(calls) :
              /\ calls[b].kind = "createMilestone"
              /\ calls[b].branch = b
              /\ ~calls[b].shared
              /\ DOMAIN calls[b].arg = {"user", "repo", "title", "due_on"}
              /\ calls[b].arg.user = org(b)
              /\ calls[b].arg.repo = repo(b)
              /\ calls[b].arg.title = request.template.title
              /\ calls[b].arg.due_on = request.template.due_on
        /\ (\A b \in 1..Len(calls) : calls[b].status = "ok") =>
              /\ Len(delivered) = 1
              /\ ~IsErr(delivered[1].err)
              /\ delivered[1].hasData
              /\ Len(delivered[1].data) = Len(repos)
              /\ \A b \in 1..Len(repos) :
                    /\ delivered[1].data[b].def
                    /\ delivered[1].data[b].val.call = b
                    /\ delivered[1].data[b].val.origin = slugOf(org(b), repo(b))
                    /\ delivered[1].data[b].val.title = request.template.title

C13_Witness ==
    /\ request.name = "createMilestones"
    /\ DOMAIN request.template = {"title", "due_on"}
    /\ Len(repos) >= 2
    /\ \A b \in 1..Len(calls) : calls[b].status = "ok"
    /\ Len(delivered) = 1

\* C14: once every remote call of an operation has responded, the operation
\* has invoked the caller's callback, and it never invokes it more than once.
C14_CallbackExactlyOnce ==
    /\ Len(delivered) <= 1
    /\ (request.name \notin {"none", "new"} /\ Pending = {}) => Len(delivered) = 1

\* C19: closeMilestones dispatches no updateMilestone call unless every
\* listMilestones call of its aggregation has completed successfully.
C19_NoUpdateBeforeAggregation ==
    Updates # {} =>
        \A c \in DOMAIN calls :
            calls[c].kind = "getAllMilestones" => calls[c].status = "ok"

C19_Witness ==
    /\ Cardinality(Updates) >= 2
    /\ Len(repos) >= 2
    /\ \E c \in Updates : calls[c].status = "inflight"

\* a slug that splits on exactly one '/' into two non-empty segments
wellFormed(slug) ==
    LET parts == split(slug, "/")
    IN  Len(parts) = 2 /\ parts[1] # <<>> /\ parts[2] # <<>>

\* C15: constructing yields one (organization, repository) pair per configured
\* slug in the same order, and construction fails with an invalid-slug error
\* whenever some slug is not well formed.
C15_SlugsValidated ==
    request.name # "new" =>
        IF \A i \in DOMAIN repoSlugs : wellFormed(repoSlugs[i])
        THEN /\ Len(repos) = Len(repoSlugs)
             /\ \A i \in DOMAIN repos :
                   /\ Len(repos[i]) = 2
                   /\ slugOf(org(i), repo(i)) = repoSlugs[i]
        ELSE \E k \in DOMAIN thrown : thrown[k] = "InvalidSlugError"

\* the state filter getIssues is to send: the caller's, "open" without one
wantedState ==
    IF ~request.cbOnly /\ "state" \in DOMAIN request.userFilters
    THEN request.userFilters.state
    ELSE "open"

RepoIssuesCalls == {c \in DOMAIN calls : calls[c].kind = "repoIssues"}

\* C16 as stated: every filter set getIssues sends has state "open" when the
\* caller supplies no state, and for every filter name the caller supplies,
\* the caller's value is the one sent.
C16_CallerValueSent ==
    request.name = "getIssues" =>
        \A c \in RepoIssuesCalls :
            /\ calls[c].arg.state = wantedState
            /\ ~request.cbOnly =>
                  \A f \in DOMAIN request.userFilters :
                      calls[c].arg[f] = request.userFilters[f]

\* C16 amended: every filter set getIssues sends has state "open" when the
\* caller supplies no state; for every filter name the caller supplies other
\* than user and repo, the caller's value is the one sent; user and repo are
\* always the target repo's organization and repository.
C16_CallerValueSentExceptTarget ==
    request.name = "getIssues" =>
        \A c \in RepoIssuesCalls :
            /\ calls[c].arg.state = wantedState
            /\ calls[c].arg.user = org(calls[c].branch)
            /\ calls[c].arg.repo = repo(calls[c].branch)
            /\ ~request.cbOnly =>
                  \A f \in DOMAIN request.userFilters \ {"user", "repo"} :
                      calls[c].arg[f] = request.userFilters[f]

C16_Witness ==
    /\ request.name = "getIssues"
    /\ ~request.cbOnly
    /\ "state" \in DOMAIN request.userFilters
    /\ request.userFilters.state # "open"
    /\ Cardinality(RepoIssuesCalls) >= 2

\* what the caller finds in the payload it was handed, looking now
Seen(k) == IF delivered[k].alias THEN par.results ELSE delivered[k].data

\* C17: after a fan-out has reported a failure, what the branches still in
\* flight report is discarded: the caller's callback is not invoked a second
\* time and the outcome already delivered does not change.
C17_LateReportsDiscarded ==
    /\ Len(delivered) <= 1
    /\ \A k \in DOMAIN delivered :
          IsErr(delivered[k].err) =>
              /\ Len(Seen(k)) = Len(delivered[k].data)
              /\ \A i \in DOMAIN delivered[k].data :
                    Seen(k)[i].def = delivered[k].data[i].def

\* C18: whatever the template passed to createMilestones carries, the payload
\* sent for a configured repo carries that repo's organization and repository.
C18_TargetNeverReplaced ==
    request.name = "createMilestones" =>
        \A c \in DOMAIN calls :
            /\ calls[c].arg.user = org(calls[c].branch)
            /\ calls[c].arg.repo = repo(calls[c].branch)

====
